---- MODULE Spec2Model ----
(***************************************************************************)
(* A model of audio/transport.c (BlueZ media transport): the lock          *)
(* arbitration between D-Bus clients (Acquire / Release), the owner and    *)
(* acquire_request life cycle, the two profile strategies (a2dp, headset)  *)
(* with their asynchronous resume completion, and the teardown paths.      *)
(*                                                                         *)
(* Access types are C strings; they are modelled as sequences of the       *)
(* characters "r", "w" and " " so that g_strstr_len, g_strcmp0 and         *)
(* g_strdelimit are computed character by character as glib does.          *)
(*                                                                         *)
(* Pointers to struct media_owner are modelled by the number of the        *)
(* Acquire message that created the owner (oid); the same number is the    *)
(* reply destination (req->msg) and, when resume succeeded, the ticket     *)
(* (req->id) returned by the profile layer.                                *)
(***************************************************************************)
EXTENDS Integers, Sequences, FiniteSets, TLC

\* ---------------------------------------------------------------- bounds
MaxMsgs == 2         \* number of Acquire calls that pass validation

Msgs == 1..MaxMsgs

\* the D-Bus senders
Clients == {":1.1", ":1.2", ":1.3"}

\* the strings clients send as access type: the three the interface
\* documents ("r", "w", "rw") and the empty string
Strings == {<<>>, <<"r">>, <<"w">>, <<"r", "w">>}
\* what the freed bytes of an access-type string may read back as
StaleStrings == {<<>>, <<"r">>, <<"w">>, <<"r", "w">>}

\* channel handles and MTUs the stream layer may report
Fds == {7, 8}
Mtus == {672, 895}
HeadsetMtu == 48
NoFd == -1

Profiles == {"a2dp", "headset"}

VARIABLES
    transport,   \* struct media_transport
    alive,       \* FALSE once media_transport_free has run
    watches,     \* owners (oid) with a registered disconnect watch
    inflight,    \* tickets whose completion callback is still registered
    idle,        \* g_idle_add queue of remove_owner(owner) tasks, oldest first
    replies,     \* per Acquire message: the replies sent on it, in order
    cancels,     \* per ticket: number of transport->cancel invocations
    hist,        \* per Acquire message: how its owner was completed / torn down
    nextMsg      \* number of the next Acquire message that passes validation

vars == <<transport, alive, watches, inflight, idle, replies, cancels, hist,
          nextMsg>>

\* ------------------------------------------------------- string helpers

\* g_strstr_len(s, -1, c) != NULL for a one-character needle c
HasChar(s, c) == \E i \in 1..Len(s) : s[i] = c

\* g_strstr_len(hay, -1, needle) != NULL
StrStr(hay, needle) ==
    \E i \in 0..(Len(hay) - Len(needle)) :
        \A j \in 1..Len(needle) : hay[i + j] = needle[j]

\* g_strcmp0(a, b) == 0
StrEq(a, b) == Len(a) = Len(b) /\ \A i \in 1..Len(a) : a[i] = b[i]

\* g_strdelimit(s, delimiters, new): every character of s that occurs in
\* delimiters is overwritten by new, in place (the length is kept)
StrDelimit(s, delimiters, new) ==
    [i \in 1..Len(s) |-> IF HasChar(delimiters, s[i]) THEN new ELSE s[i]]

\* ------------------------------------------------------------- records

\* unlocked counts the suspend calls made while in_use was FALSE, late the
\* cancel calls made for a ticket whose callback was no longer registered
NoCalls ==
    [suspend |-> 0, resume |-> 0, cancel |-> 0, emit |-> <<>>, unlocked |-> 0,
     late |-> 0]

NoHist == [completion |-> "none", by |-> "none", pending |-> FALSE]

\* the mutable world a handler works on; calls counts the profile hooks
\* and lists the property notifications the handler has invoked so far
World ==
    [transport |-> transport, watches |-> watches, inflight |-> inflight,
     idle |-> idle, replies |-> replies, cancels |-> cancels, hist |-> hist,
     calls |-> NoCalls]

Commit(w) ==
    /\ transport' = w.transport
    /\ watches' = w.watches
    /\ inflight' = w.inflight
    /\ idle' = w.idle
    /\ replies' = w.replies
    /\ cancels' = w.cancels
    /\ hist' = w.hist

\* position of the owner with address oid in the owner list (0: not there)
OwnerIdx(owners, oid) ==
    IF \E i \in 1..Len(owners) : owners[i].oid = oid
    THEN CHOOSE i \in 1..Len(owners) : owners[i].oid = oid
    ELSE 0

IsOwner(owners, oid) == OwnerIdx(owners, oid) # 0

OwnerOf(owners, oid) == owners[OwnerIdx(owners, oid)]

\* g_slist_remove(list, data)
SListRemove(owners, oid) ==
    LET k == OwnerIdx(owners, oid)
    IN IF k = 0 THEN owners
       ELSE [i \in 1..(Len(owners) - 1) |->
                IF i < k THEN owners[i] ELSE owners[i + 1]]

SetOwner(w, oid, o) ==
    [w EXCEPT !.transport.owners[OwnerIdx(w.transport.owners, oid)] = o]


\* ------------------------------------------------- profile layer hooks

\* transport->cancel (cancel_a2dp / cancel_headset): the profile layer drops
\* the completion callback registered under the ticket
cancel(w, id) ==
    [w EXCEPT !.inflight = @ \ {id},
              !.cancels[id] = @ + 1,
              !.calls.cancel = @ + 1,
              !.calls.late = @ + (IF id \in w.inflight THEN 0 ELSE 1)]

\* a suspend that unlocks and leaves in_use as it is
suspend_keeps_in_use(w) ==
    [w EXCEPT !.calls.suspend = @ + 1,
              !.calls.unlocked = @ + (IF w.transport.in_use THEN 0 ELSE 1)]

\* transport->suspend (suspend_a2dp / suspend_headset): unlock, in_use = FALSE
suspend(w) ==
    [w EXCEPT !.transport.in_use = FALSE,
              !.calls.suspend = @ + 1,
              !.calls.unlocked = @ + (IF w.transport.in_use THEN 0 ELSE 1)]

\* resume_a2dp: env.session_ok is avdtp_get() != NULL, env.lock_ok the result
\* of a2dp_sep_lock, env.resume_ok whether a2dp_resume returns a ticket
resume_a2dp(w, oid, env) ==
    LET w0 == [w EXCEPT !.calls.resume = @ + 1]
        w1 == [w0 EXCEPT !.transport.session = TRUE]
        w2 == [w1 EXCEPT !.transport.in_use = env.lock_ok]
        done(x) == IF env.resume_ok
                   THEN [w |-> [x EXCEPT !.inflight = @ \cup {oid}], id |-> oid]
                   ELSE [w |-> x, id |-> 0]
    IN IF ~w0.transport.session /\ ~env.session_ok THEN [w |-> w0, id |-> 0]
       ELSE IF w1.transport.in_use THEN done(w1)
       ELSE IF ~w2.transport.in_use THEN [w |-> w2, id |-> 0]
       ELSE done(w2)

\* resume_headset: env.lock_ok is the result of headset_lock, env.resume_ok
\* whether headset_request_stream returns a ticket
resume_headset(w, oid, env) ==
    LET w0 == [w EXCEPT !.calls.resume = @ + 1]
        w2 == [w0 EXCEPT !.transport.in_use = env.lock_ok]
        done(x) == IF env.resume_ok
                   THEN [w |-> [x EXCEPT !.inflight = @ \cup {oid}], id |-> oid]
                   ELSE [w |-> x, id |-> 0]
    IN IF w0.transport.in_use THEN done(w0)
       ELSE IF ~w2.transport.in_use THEN [w |-> w2, id |-> 0]
       ELSE done(w2)

\* transport->resume, selected in media_transport_create
resume(w, oid, env) ==
    IF w.transport.profile = "a2dp" THEN resume_a2dp(w, oid, env)
    ELSE resume_headset(w, oid, env)

\* --------------------------------------------------- transport helpers

\* a request destructor that forgets the ticket
request_free_without_cancel(w, oid) ==
    SetOwner(w, oid, [OwnerOf(w.transport.owners, oid) EXCEPT
                          !.request = FALSE, !.id = 0])

acquire_request_free(w, oid) ==
    LET o == OwnerOf(w.transport.owners, oid)
        w1 == IF o.id # 0 THEN cancel(w, o.id) ELSE w
    IN SetOwner(w1, oid, [o EXCEPT !.request = FALSE, !.id = 0])


\* a release that drops both locks whatever the access type names
release_both_locks(w, accesstype) ==
    [w EXCEPT !.transport.read_lock = FALSE, !.transport.write_lock = FALSE]

media_transport_release(w, accesstype) ==
    LET w1 == IF HasChar(accesstype, "r")
              THEN [w EXCEPT !.transport.read_lock = FALSE] ELSE w
    IN IF HasChar(accesstype, "w")
       THEN [w1 EXCEPT !.transport.write_lock = FALSE] ELSE w1

\* g_dbus_send_message that drops the error instead of sending it
send_error_dropped(w, oid) == w

\* g_dbus_send_message of the EIO error built from owner->request->msg
send_error(w, oid) == [w EXCEPT !.replies[oid] = Append(@, "EIO")]


\* a teardown that suspends without testing whether an owner is left
owner_remove_always_suspends(w, oid) ==
    LET o == OwnerOf(w.transport.owners, oid)
        w1 == media_transport_release(w, o.accesstype)
        w2 == IF o.watch THEN [w1 EXCEPT !.watches = @ \ {oid}] ELSE w1
        w3 == IF o.request
              THEN acquire_request_free(send_error(w2, oid), oid)
              ELSE w2
        w4 == [w3 EXCEPT !.transport.owners = SListRemove(@, oid)]
    IN suspend(w4)

media_owner_remove(w, oid) ==
    LET o == OwnerOf(w.transport.owners, oid)
        w1 == media_transport_release(w, o.accesstype)
        w2 == IF o.watch THEN [w1 EXCEPT !.watches = @ \ {oid}] ELSE w1
        w3 == IF o.request
              THEN acquire_request_free(send_error(w2, oid), oid)
              ELSE w2
        w4 == [w3 EXCEPT !.transport.owners = SListRemove(@, oid)]
    IN IF w4.transport.owners = <<>> THEN suspend(w4) ELSE w4

emit_property_changed(w, name, value) ==
    [w EXCEPT !.calls.emit = Append(@, <<name, value>>)]

media_transport_set_fd(w, fd, imtu, omtu) ==
    IF w.transport.fd = fd THEN w
    ELSE LET w1 == [w EXCEPT !.transport.fd = fd,
                             !.transport.imtu = imtu,
                             !.transport.omtu = omtu]
         IN emit_property_changed(
                emit_property_changed(w1, "IMTU", imtu), "OMTU", omtu)

\* history: the teardown of the owner of Acquire message oid starts
Mark(w, oid, by) ==
    [w EXCEPT !.hist[oid].by = by,
              !.hist[oid].pending = (oid \in w.inflight)]


\* results of avdtp_get, a2dp_sep_lock / headset_lock and a2dp_resume /
\* headset_request_stream; a later call is made only when the earlier ones
\* succeeded, so one result of it is listed after a failure
ResumeEnvs ==
    {[session_ok |-> FALSE, lock_ok |-> FALSE, resume_ok |-> FALSE],
     [session_ok |-> TRUE, lock_ok |-> FALSE, resume_ok |-> FALSE],
     [session_ok |-> TRUE, lock_ok |-> TRUE, resume_ok |-> FALSE],
     [session_ok |-> TRUE, lock_ok |-> TRUE, resume_ok |-> TRUE]}

\* ------------------------------------------------------------ handlers


\* a lookup that starts at the second element of the list
find_owner_skips_head(owners, name) ==
    IF \E i \in 2..Len(owners) : owners[i].name = name
    THEN owners[CHOOSE i \in 2..Len(owners) : owners[i].name = name].oid
    ELSE 0

\* media_transport_find_owner: the address of the first owner whose name is
\* the sender, 0 (NULL) when the list holds none
media_transport_find_owner(owners, name) ==
    IF \E i \in 1..Len(owners) : owners[i].name = name
    THEN LET k == CHOOSE i \in 1..Len(owners) :
                     /\ owners[i].name = name
                     /\ \A j \in 1..(i - 1) : owners[j].name # name
         IN owners[k].oid
    ELSE 0


\* an acquire that takes the read lock before it has checked the write lock
acquire_locks_eagerly(w, accesstype) ==
    LET rd == HasChar(accesstype, "r")
        wr == HasChar(accesstype, "w")
        w1 == IF rd THEN [w EXCEPT !.transport.read_lock = TRUE] ELSE w
        w2 == IF wr THEN [w1 EXCEPT !.transport.write_lock = TRUE] ELSE w1
    IN IF rd /\ w.transport.read_lock THEN [ok |-> FALSE, w |-> w]
       ELSE IF wr /\ w.transport.write_lock THEN [ok |-> FALSE, w |-> w1]
       ELSE IF ~rd /\ ~wr THEN [ok |-> FALSE, w |-> w]
       ELSE [ok |-> TRUE, w |-> w2]

\* media_transport_acquire: [ok |-> return value, w |-> world afterwards]
media_transport_acquire(w, accesstype) ==
    LET rd == HasChar(accesstype, "r")
        wr == HasChar(accesstype, "w")
        w1 == IF rd THEN [w EXCEPT !.transport.read_lock = TRUE] ELSE w
        w2 == IF wr THEN [w1 EXCEPT !.transport.write_lock = TRUE] ELSE w1
    IN IF rd /\ w.transport.read_lock THEN [ok |-> FALSE, w |-> w]
       ELSE IF wr /\ w.transport.write_lock THEN [ok |-> FALSE, w |-> w]
       ELSE IF ~rd /\ ~wr THEN [ok |-> FALSE, w |-> w]
       ELSE [ok |-> TRUE, w |-> w2]

media_owner_create(w, oid, sender, accesstype) ==
    [w EXCEPT !.transport.owners =
                  Append(@, [oid |-> oid, name |-> sender,
                             accesstype |-> accesstype, watch |-> TRUE,
                             request |-> FALSE, id |-> 0]),
              !.watches = @ \cup {oid}]

\* an acquire that leaves the owner in place when resume returns no ticket
acquire_without_teardown(w, oid, sender, accesstype, env) ==
    LET w1 == media_owner_create(w, oid, sender, accesstype)
        r == resume(w1, oid, env)
        o == OwnerOf(r.w.transport.owners, oid)
    IN SetOwner(r.w, oid, [o EXCEPT !.request = TRUE, !.id = r.id])

\* acquire, after both permission checks passed; oid is the new owner
acquire_accepted(w, oid, sender, accesstype, env) ==
    LET w1 == media_owner_create(w, oid, sender, accesstype)
        r == resume(w1, oid, env)
        o == OwnerOf(r.w.transport.owners, oid)
        w2 == SetOwner(r.w, oid, [o EXCEPT !.request = TRUE, !.id = r.id])
    IN IF r.id = 0 THEN media_owner_remove(Mark(w2, oid, "syncfail"), oid)
       ELSE w2

\* the results worth telling apart: all of them when the call reaches
\* transport->resume, one when it is rejected before
ResumeEnvsFor(w, sender, accesstype) ==
    IF /\ media_transport_find_owner(w.transport.owners, sender) = 0
       /\ media_transport_acquire(w, accesstype).ok
    THEN ResumeEnvs
    ELSE {CHOOSE e \in ResumeEnvs : e.resume_ok}

\* acquire: [ret, oid, w]; ret "denied" is the Permission denied error
\* returned to the caller, "async" the NULL return of the asynchronous method
acquire(w, oid, sender, accesstype, env) ==
    LET owner == media_transport_find_owner(w.transport.owners, sender)
        a == media_transport_acquire(w, accesstype)
    IN IF owner # 0 THEN [ret |-> "denied", oid |-> 0, w |-> w]
       ELSE IF ~a.ok THEN [ret |-> "denied", oid |-> 0, w |-> a.w]
       ELSE [ret |-> "async", oid |-> oid,
             w |-> acquire_accepted(a.w, oid, sender, accesstype, env)]

\* release: [ret, w]; ret "ok" is the empty method return
release(w, sender, accesstype) ==
    LET owner == media_transport_find_owner(w.transport.owners, sender)
        o == OwnerOf(w.transport.owners, owner)
    IN IF owner = 0 THEN [ret |-> "denied", w |-> w]
       ELSE IF StrEq(o.accesstype, accesstype)
       THEN [ret |-> "ok",
             w |-> media_owner_remove(Mark(w, owner, "release"), owner)]
       ELSE IF StrStr(o.accesstype, accesstype)
       THEN [ret |-> "ok",
             w |-> SetOwner(media_transport_release(w, accesstype), owner,
                     [o EXCEPT !.accesstype =
                                   StrDelimit(@, accesstype, " ")])]
       ELSE [ret |-> "denied", w |-> w]


\* a disconnect handler that leaves the request to media_owner_remove
owner_exit_keeps_request(w, oid) ==
    LET o == OwnerOf(w.transport.owners, oid)
        w0 == Mark(w, oid, "exit")
        w1 == SetOwner([w0 EXCEPT !.watches = @ \ {oid}], oid,
                       [o EXCEPT !.watch = FALSE])
    IN media_owner_remove(w1, oid)

\* media_owner_exit: the disconnect watch of the owner fired
media_owner_exit(w, oid) ==
    LET o == OwnerOf(w.transport.owners, oid)
        w0 == Mark(w, oid, "exit")
        w1 == SetOwner([w0 EXCEPT !.watches = @ \ {oid}], oid,
                       [o EXCEPT !.watch = FALSE])
        w2 == IF o.request THEN acquire_request_free(w1, oid) ELSE w1
    IN media_owner_remove(w2, oid)


\* a fail label that returns without scheduling the teardown
a2dp_fail_not_scheduled(w, oid, how) ==
    [w EXCEPT !.hist[oid].completion = how]

\* a fail label that tears the owner down before the callback returns
a2dp_fail_inline(w, oid, how) ==
    media_owner_remove(
        Mark([w EXCEPT !.hist[oid].completion = how], oid, "fail"), oid)

\* the fail label of a2dp_resume_complete: g_idle_add(remove_owner, owner)
a2dp_fail(w, oid, how) ==
    [w EXCEPT !.idle = Append(@, oid), !.hist[oid].completion = how]

\* the fail label of headset_resume_complete: media_owner_remove(owner)
headset_fail(w, oid, how) ==
    media_owner_remove(
        Mark([w EXCEPT !.hist[oid].completion = how], oid, "fail"), oid)

\* what both completion callbacks do first: req->id = 0; the profile layer
\* has dropped the callback by calling it
complete_ticket(w, oid) ==
    SetOwner([w EXCEPT !.inflight = @ \ {oid}], oid,
             [OwnerOf(w.transport.owners, oid) EXCEPT !.id = 0])

\* g_dbus_send_reply of the channel handle on req->msg
send_reply(w, oid) ==
    [w EXCEPT !.replies[oid] = Append(@, "fd"),
              !.hist[oid].completion = "ok"]

\* out.kind: "err" (err != NULL), "nostream", "notransport", "sendfail"
\* (g_dbus_send_reply returned FALSE) or "ok"
a2dp_resume_complete(w, oid, out) ==
    LET w1 == complete_ticket(w, oid)
        w2 == media_transport_set_fd(w1, out.fd, out.imtu, out.omtu)
    IN IF out.kind \in {"err", "nostream", "notransport"}
       THEN a2dp_fail(w1, oid, "fail")
       ELSE IF out.kind = "sendfail" THEN a2dp_fail(w2, oid, "sendfail")
       ELSE send_reply(w2, oid)

\* out.kind: "nodev" (dev == NULL), "badfd" (fd < 0), "sendfail" or "ok"
headset_resume_complete(w, oid, out) ==
    LET w1 == complete_ticket(w, oid)
        w2 == media_transport_set_fd(w1, out.fd, HeadsetMtu, HeadsetMtu)
    IN IF out.kind \in {"nodev", "badfd"}
       THEN headset_fail(w1, oid, "fail")
       ELSE IF out.kind = "sendfail" THEN headset_fail(w2, oid, "sendfail")
       ELSE send_reply(w2, oid)

\* remove_owner, the idle task, on an owner that is still allocated
remove_owner(w, oid) == media_owner_remove(Mark(w, oid, "idle"), oid)

\* g_slist_foreach(transport->owners, media_owner_remove, NULL)
RECURSIVE foreach_owner_remove(_, _)
foreach_owner_remove(w, oids) ==
    IF oids = <<>> THEN w
    ELSE foreach_owner_remove(
             media_owner_remove(Mark(w, Head(oids), "free"), Head(oids)),
             Tail(oids))

\* a destructor that tears down the first owner only
free_first_owner_only(w) ==
    IF w.transport.owners = <<>> THEN w
    ELSE media_owner_remove(Mark(w, w.transport.owners[1].oid, "free"),
                            w.transport.owners[1].oid)

media_transport_free(w) ==
    foreach_owner_remove(w,
        [i \in 1..Len(w.transport.owners) |-> w.transport.owners[i].oid])


\* remove_owner on an owner that media_owner_remove has already freed: the
\* task reads freed memory.  Either the bytes of the freed owner are read
\* back (any access-type string may be found there; its lock bits are
\* cleared, the list is left alone and the now-empty test is made again), or
\* the allocator has handed the address to a later owner, which is then torn
\* down in place of the old one.
remove_owner_dangling(w, out) ==
    IF out.reused # 0 THEN media_owner_remove(Mark(w, out.reused, "stale"),
                                              out.reused)
    ELSE LET w1 == media_transport_release(w, out.bytes)
         IN IF w1.transport.owners = <<>> THEN suspend(w1) ELSE w1

DanglingOutcomes(owners) ==
    [reused : {0}, bytes : StaleStrings]
        \cup [reused : {owners[i].oid : i \in 1..Len(owners)}, bytes : {<<>>}]

A2dpOutcomes ==
    [kind : {"err", "nostream", "notransport"}, fd : {NoFd}, imtu : {0},
     omtu : {0}]
        \cup [kind : {"ok", "sendfail"}, fd : Fds, imtu : Mtus, omtu : Mtus]

HeadsetOutcomes ==
    [kind : {"nodev", "badfd"}, fd : {NoFd}, imtu : {0}, omtu : {0}]
        \cup [kind : {"ok", "sendfail"}, fd : Fds, imtu : {HeadsetMtu},
              omtu : {HeadsetMtu}]

\* -------------------------------------------------------------- actions

\* media_transport_create
Init ==
    /\ transport \in [profile : Profiles, owners : {<<>>}, fd : {NoFd},
                      imtu : {0}, omtu : {0}, read_lock : {FALSE},
                      write_lock : {FALSE}, in_use : {FALSE},
                      session : {FALSE}]
    /\ alive = TRUE
    /\ watches = {}
    /\ inflight = {}
    /\ idle = <<>>
    /\ replies = [m \in Msgs |-> <<>>]
    /\ cancels = [m \in Msgs |-> 0]
    /\ hist = [m \in Msgs |-> NoHist]
    /\ nextMsg = 1

\* Every way each handler can run in the current state, as records
\* [sender, arg, ret, oid, w]: the caller and argument of a method call, the
\* value it returns, the owner the handler is about, the world it leaves.

\* every Acquire call a client can make now
AcquireAttempts ==
    IF ~alive THEN {}
    ELSE LET run(sender, accesstype, env) ==
                 LET r == acquire(World, nextMsg, sender, accesstype, env)
                 IN [op |-> "acquire", sender |-> sender, arg |-> accesstype,
                     ret |-> r.ret, oid |-> r.oid, w |-> r.w]
         IN UNION {{run(p[1], p[2], env) :
                       env \in ResumeEnvsFor(World, p[1], p[2])} :
                   p \in Clients \X Strings}

\* those of them the model follows: at most MaxMsgs pass validation
AcquireRuns == {r \in AcquireAttempts : r.oid # 0 => nextMsg <= MaxMsgs}

ReleaseRuns ==
    IF ~alive THEN {}
    ELSE {LET r == release(World, p[1], p[2])
          IN [op |-> "release", sender |-> p[1], arg |-> p[2],
              ret |-> r.ret, oid |-> 0, w |-> r.w] :
          p \in Clients \X Strings}

\* a disconnect watch fires for its owner
ExitRuns ==
    IF ~alive THEN {}
    ELSE {[op |-> "exit", sender |-> OwnerOf(transport.owners, oid).name,
           arg |-> <<>>, ret |-> "none", oid |-> oid,
           w |-> media_owner_exit(World, oid)] : oid \in watches}

\* the profile layer calls the completion callback registered for a ticket
CompleteRuns ==
    IF ~alive THEN {}
    ELSE {[op |-> p[2].kind,
           sender |-> OwnerOf(transport.owners, p[1]).name,
           arg |-> <<>>, ret |-> "none", oid |-> p[1],
           w |-> IF transport.profile = "a2dp"
                 THEN a2dp_resume_complete(World, p[1], p[2])
                 ELSE headset_resume_complete(World, p[1], p[2])] :
          p \in inflight \X (IF transport.profile = "a2dp" THEN A2dpOutcomes
                             ELSE HeadsetOutcomes)}

\* the main loop runs the oldest idle task and its owner is still allocated
IdleRuns ==
    IF idle = <<>> \/ ~alive \/ ~IsOwner(transport.owners, Head(idle))
    THEN {}
    ELSE {[op |-> "idle", sender |-> "", arg |-> <<>>, ret |-> "none",
           oid |-> Head(idle),
           w |-> remove_owner([World EXCEPT !.idle = Tail(@)], Head(idle))]}

\* the main loop runs the oldest idle task and its owner was freed meanwhile
DanglingRuns ==
    IF idle = <<>> \/ (alive /\ IsOwner(transport.owners, Head(idle)))
    THEN {}
    ELSE IF ~alive
    THEN {[op |-> "dangling", sender |-> "", arg |-> <<>>, ret |-> "none",
           oid |-> Head(idle), w |-> [World EXCEPT !.idle = Tail(@)]]}
    ELSE {[op |-> "dangling", sender |-> "", arg |-> out.bytes,
           ret |-> "none", oid |-> Head(idle),
           w |-> remove_owner_dangling([World EXCEPT !.idle = Tail(@)], out)] :
          out \in DanglingOutcomes(transport.owners)}

\* the D-Bus interface is unregistered
FreeRuns ==
    IF ~alive THEN {}
    ELSE {[op |-> "free", sender |-> "", arg |-> <<>>, ret |-> "none",
           oid |-> 0, w |-> media_transport_free(World)]}

Runs ==
    AcquireRuns \cup ReleaseRuns \cup ExitRuns \cup CompleteRuns
        \cup IdleRuns \cup DanglingRuns \cup FreeRuns

AcquireCall ==
    \E run \in AcquireRuns :
        /\ Commit(run.w)
        /\ nextMsg' = IF run.oid # 0 THEN nextMsg + 1 ELSE nextMsg
        /\ UNCHANGED alive

ReleaseCall ==
    \E run \in ReleaseRuns : Commit(run.w) /\ UNCHANGED <<alive, nextMsg>>

ClientExit ==
    \E run \in ExitRuns : Commit(run.w) /\ UNCHANGED <<alive, nextMsg>>

ResumeComplete ==
    \E run \in CompleteRuns : Commit(run.w) /\ UNCHANGED <<alive, nextMsg>>

IdleRemoveOwner ==
    \E run \in IdleRuns : Commit(run.w) /\ UNCHANGED <<alive, nextMsg>>

IdleRemoveOwnerDangling ==
    \E run \in DanglingRuns : Commit(run.w) /\ UNCHANGED <<alive, nextMsg>>

TransportFree ==
    \E run \in FreeRuns :
        Commit(run.w) /\ alive' = FALSE /\ UNCHANGED nextMsg

Next ==
    \/ AcquireCall
    \/ ReleaseCall
    \/ ClientExit
    \/ ResumeComplete
    \/ IdleRemoveOwner
    \/ IdleRemoveOwnerDangling
    \/ TransportFree

Spec == Init /\ [][Next]_vars

\* the GLib main loop takes the oldest queued idle task off its queue; the
\* steps that do so are those of IdleRemoveOwner and IdleRemoveOwnerDangling
\* (every other step leaves the queue alone or appends to it)
IdleDispatch == idle # <<>> /\ idle' = Tail(idle)

\* the main loop keeps running: a queued idle task is eventually run
FairSpec == Spec /\ WF_idle(IdleDispatch)

\* the profile layer takes the ticket m off its list of pending callbacks:
\* by calling the completion callback, or because the ticket was cancelled
CompletionDispatch(m) ==
    \E S \in SUBSET inflight : m \in S /\ inflight' = inflight \ S

\* the main loop keeps running and the profile layer completes every ticket
\* that is not cancelled
LiveSpec ==
    /\ Spec
    /\ WF_idle(IdleDispatch)
    /\ \A m \in Msgs : WF_inflight(CompletionDispatch(m))

\* ---------------------------------------------------------------- claims

Owners == {transport.owners[i] : i \in 1..Len(transport.owners)}

\* the owners whose recorded access type contains the component c
Holders(c) ==
    {i \in 1..Len(transport.owners) :
         HasChar(transport.owners[i].accesstype, c)}

\* C1: in every reachable state read_lock is TRUE exactly when exactly one
\* owner in the owner list has a recorded access type containing "r", and
\* write_lock is TRUE exactly when exactly one owner has one containing "w".
C1_LocksMatchHolders ==
    /\ transport.read_lock <=> Cardinality(Holders("r")) = 1
    /\ transport.write_lock <=> Cardinality(Holders("w")) = 1

\* C2: an Acquire call on which the channel handle was delivered never gets
\* another reply: the handle is the only reply ever sent on it.
C2_ReplyOnce ==
    \A m \in Msgs :
        (\E i \in 1..Len(replies[m]) : replies[m][i] = "fd")
            => Len(replies[m]) = 1


\* the components an access-type string names
Held(accesstype) == {c \in {"r", "w"} : HasChar(accesstype, c)}

HasOwner(name) == \E o \in Owners : o.name = name

\* the owner record of a client that has exactly one
TheOwner(name) == CHOOSE o \in Owners : o.name = name

\* teardown paths an operation on the transport starts from outside
TornPending(m, paths) == hist[m].by \in paths /\ hist[m].pending

C4_ReleaseInTwoHalves ==
    \A run \in ReleaseRuns :
        HasOwner(run.sender) =>
            LET o == TheOwner(run.sender)
                t == run.w.transport
            IN /\ hist[o.oid].completion = "ok"
                  /\ o.accesstype = <<"r", "w">> /\ run.arg = <<"r">>
                  => /\ IsOwner(t.owners, o.oid)
                     /\ Held(OwnerOf(t.owners, o.oid).accesstype) = {"w"}
                     /\ ~t.read_lock /\ t.write_lock
               /\ hist[o.oid].completion = "ok"
                  /\ o.accesstype = <<" ", "w">> /\ run.arg = <<"w">>
                  /\ Len(transport.owners) = 1
                  => /\ t.owners = <<>>
                     /\ run.w.calls.suspend = 1
                     /\ ~t.read_lock /\ ~t.write_lock

\* C5: the owner list never holds two owners of one client, and an Acquire
\* from a client that has an owner is rejected with Permission denied and
\* changes nothing, whatever it asks for and whatever the locks are.
C5_OneOwnerPerClient ==
    /\ \A i, j \in 1..Len(transport.owners) :
           transport.owners[i].name = transport.owners[j].name => i = j
    /\ \A run \in AcquireRuns :
           HasOwner(run.sender) => run.ret = "denied" /\ run.w = World

\* a client that has an owner asks for a component that is free
C5_Witness ==
    \E run \in AcquireRuns :
        /\ HasOwner(run.sender)
        /\ run.arg = <<"w">> /\ ~transport.write_lock
        /\ run.ret = "denied"

\* an Acquire that must fail validation: the sender has an owner, the string
\* names no component, or a named component is locked
FailsValidation(sender, accesstype) ==
    \/ HasOwner(sender)
    \/ Held(accesstype) = {}
    \/ "r" \in Held(accesstype) /\ transport.read_lock
    \/ "w" \in Held(accesstype) /\ transport.write_lock

\* C6: every Acquire that fails validation is answered Permission denied,
\* leaves read_lock, write_lock, the owner list, in_use and the channel
\* descriptor as they were and does not call resume.
C6_RejectedAcquireNoEffect ==
    \A run \in AcquireRuns :
        /\ FailsValidation(run.sender, run.arg) => run.ret = "denied"
        /\ run.ret = "denied"
               => /\ run.w.transport = transport
                  /\ run.w.calls.resume = 0

\* "rw" is asked for while exactly one of the two components is held
C6_Witness ==
    \E run \in AcquireRuns :
        /\ ~HasOwner(run.sender)
        /\ run.arg = <<"r", "w">>
        /\ transport.read_lock # transport.write_lock
        /\ run.ret = "denied"

\* C7: a Release that names neither the owner's whole access nor a strict
\* non-empty part of it, or that comes from a client without owner, is
\* answered Permission denied and leaves the transport as it was.
C7_BadReleaseDenied ==
    \A run \in ReleaseRuns :
        LET S == Held(run.arg)
            H == Held(TheOwner(run.sender).accesstype)
        IN \/ ~HasOwner(run.sender)
           \/ S # H /\ ~(S # {} /\ S \subseteq H)
           => run.ret = "denied" /\ run.w.transport = transport

\* C8: a Release naming a strict non-empty part of the owner's access clears
\* exactly the named lock bits, shrinks the recorded access to the rest and
\* leaves everything else: the owner stays with its request and ticket, no
\* reply, no cancel, no suspend.
C8_PartialRelease ==
    \A run \in ReleaseRuns :
        HasOwner(run.sender) =>
            LET o == TheOwner(run.sender)
                S == Held(run.arg)
                H == Held(o.accesstype)
                t == run.w.transport
                k == OwnerIdx(transport.owners, o.oid)
            IN S # {} /\ S \subseteq H /\ S # H =>
                   /\ run.ret = "ok"
                   /\ t.read_lock = (transport.read_lock /\ "r" \notin S)
                   /\ t.write_lock = (transport.write_lock /\ "w" \notin S)
                   /\ Held(t.owners[k].accesstype) = H \ S
                   /\ t = [transport EXCEPT
                              !.read_lock = t.read_lock,
                              !.write_lock = t.write_lock,
                              !.owners[k].accesstype = t.owners[k].accesstype]
                   /\ run.w = [World EXCEPT !.transport = t]

\* an owner that released one half while its request is still outstanding
C8_Witness ==
    \E o \in Owners :
        /\ Cardinality(Held(o.accesstype)) = 1
        /\ HasChar(o.accesstype, " ")
        /\ o.request /\ o.id \in inflight
        /\ replies[o.oid] = <<>> /\ cancels[o.oid] = 0

\* C9: a handler that takes the owner list from non-empty to empty invokes
\* suspend exactly once (also an Acquire whose resume fails at once and whose
\* new owner was the only one), and a handler that leaves the list non-empty
\* does not invoke it.
C9_SuspendOnLastOwner ==
    \A run \in Runs :
        /\ transport.owners # <<>> /\ run.w.transport.owners = <<>>
               => run.w.calls.suspend = 1
        /\ run.op = "acquire" /\ run.oid # 0 /\ run.w.transport.owners = <<>>
               => run.w.calls.suspend = 1
        /\ run.w.transport.owners # <<>> => run.w.calls.suspend = 0

\* two owners are about to be removed by one handler (transport destruction)
\* and, in another run, one of two owners goes while the other stays
C9_Witness ==
    /\ Len(transport.owners) = 2
    /\ \E run \in Runs :
           run.w.transport.owners = <<>> /\ run.w.calls.suspend = 1
    /\ \E run \in Runs :
           Len(run.w.transport.owners) = 1 /\ run.w.calls.suspend = 0


FailKinds == {"err", "nostream", "notransport", "nodev", "badfd"}

InIdle(oid) == \E i \in 1..Len(idle) : idle[i] = oid

\* the runs possible now that take the owner oid out of the owner list
RemovingRuns(oid) == {run \in Runs : ~IsOwner(run.w.transport.owners, oid)}

\* the owners that acquired "r" and whose completion callback may report, or
\* has reported, that the resume failed
C10_Subjects == {o \in Owners : o.accesstype = <<"r">>}

\* the failing completion callback itself: it never publishes a channel
\* handle; the voice-channel one tears the owner down at once (one error
\* reply, read_lock FALSE), the streaming one queues the teardown task
C10_Callback ==
    \A o \in C10_Subjects :
        \A run \in {r \in CompleteRuns :
                        r.oid = o.oid /\ r.op \in FailKinds} :
            /\ run.w.transport.fd = transport.fd
            /\ IF transport.profile = "headset"
               THEN /\ ~IsOwner(run.w.transport.owners, o.oid)
                    /\ run.w.replies[o.oid] = <<"EIO">>
                    /\ ~run.w.transport.read_lock
               ELSE /\ IsOwner(run.w.transport.owners, o.oid)
                    /\ run.w.idle = Append(idle, o.oid)
                    /\ run.w.replies[o.oid] = <<>>

C10_FailedResumeSafe ==
    /\ C10_Callback
    /\ \A o \in C10_Subjects :
           hist[o.oid].completion = "fail" =>
               /\ InIdle(o.oid)
               /\ \A run \in RemovingRuns(o.oid) :
                      /\ run.w.replies[o.oid] =
                             IF run.op = "exit" THEN <<>> ELSE <<"EIO">>
                      /\ ~run.w.transport.read_lock
                      /\ run.w.transport.fd = transport.fd
    /\ \A m \in Msgs :
           hist[m].completion = "fail" /\ hist[m].by # "none"
               => replies[m] \in {<<>>, <<"EIO">>}
                  /\ (replies[m] = <<>> <=> hist[m].by = "exit")

C12_IndependentLocks ==
    \A run \in AcquireAttempts :
        /\ (\E o \in Owners : o.accesstype = <<"r">> /\ o.id \in inflight)
              /\ run.arg = <<"w">> /\ ~HasOwner(run.sender)
              /\ ~transport.write_lock
              => /\ run.ret = "async"
                 /\ IsOwner(run.w.transport.owners, run.oid)
                        => run.w.transport.write_lock
                 /\ run.w.transport.read_lock = transport.read_lock
        /\ (\E o \in Owners : HasChar(o.accesstype, "r"))
              /\ HasChar(run.arg, "r")
              => run.ret = "denied" /\ run.w.transport = transport


\* the channel descriptors a completion callback can publish now
Published ==
    IF ~alive \/ inflight = {} THEN {}
    ELSE {out \in (IF transport.profile = "a2dp" THEN A2dpOutcomes
                   ELSE HeadsetOutcomes) : out.kind \in {"ok", "sendfail"}}

\* number of notifications for the property name among those emitted
Notified(emit, name) ==
    Cardinality({i \in 1..Len(emit) : emit[i][1] = name})

\* C13: publishing a channel descriptor stores both MTU values, emits one
\* notification for IMTU exactly when the input MTU changes and one for OMTU
\* exactly when the output MTU changes, and none otherwise.
C13_MtuNotifications ==
    \A out \in Published :
        LET w == media_transport_set_fd(World, out.fd, out.imtu, out.omtu)
        IN /\ w.transport.imtu = out.imtu
           /\ w.transport.omtu = out.omtu
           /\ Notified(w.calls.emit, "IMTU") =
                  IF out.imtu # transport.imtu THEN 1 ELSE 0
           /\ Notified(w.calls.emit, "OMTU") =
                  IF out.omtu # transport.omtu THEN 1 ELSE 0


\* the Acquire calls that pass validation and whose resume returns no ticket
SyncFailedRuns ==
    {run \in AcquireRuns :
         run.ret = "async" /\ run.w.calls.resume = 1
             /\ run.oid \notin run.w.inflight}

\* C14: when resume returns no ticket, then when Acquire returns the new
\* owner is gone from the owner list, the lock bits are as before the call
\* (its own are cleared again, those of other owners are untouched), its
\* disconnect watch is removed, exactly one error reply was sent on the
\* Acquire call and cancel was not invoked.
C14_SyncFailure ==
    \A run \in SyncFailedRuns :
        /\ ~IsOwner(run.w.transport.owners, run.oid)
        /\ run.w.transport.owners = transport.owners
        /\ run.w.transport.read_lock = transport.read_lock
        /\ run.w.transport.write_lock = transport.write_lock
        /\ run.w.watches = watches
        /\ run.w.replies[run.oid] = <<"EIO">>
        /\ run.w.calls.cancel = 0 /\ run.w.cancels = cancels

\* an Acquire("r") failed at once while another owner holds Write
C14_Witness ==
    \E m \in Msgs :
        /\ hist[m].by = "syncfail" /\ replies[m] = <<"EIO">>
        /\ ~IsOwner(transport.owners, m)
        /\ transport.write_lock /\ ~transport.read_lock
        /\ \E o \in Owners : o.accesstype = <<"w">> /\ o.id \in inflight


\* C15: cancel is invoked at most once per ticket and only while the
\* completion callback of the ticket is still registered; a handler that
\* cancels a ticket does so for an owner that is in the list when it starts,
\* and no handler leaves a registered ticket whose owner is gone.
C15_CancelDiscipline ==
    /\ \A m \in Msgs : cancels[m] <= 1
    /\ inflight \subseteq {o.oid : o \in Owners}
    /\ \A o \in Owners : o.id # 0 => o.id = o.oid /\ o.id \in inflight
    /\ \A run \in Runs :
           /\ run.w.calls.late = 0
           /\ \A m \in Msgs :
                  /\ run.w.cancels[m] > cancels[m]
                         => IsOwner(transport.owners, m) /\ m \in inflight
                  /\ ~IsOwner(run.w.transport.owners, m)
                         => m \notin run.w.inflight

\* an owner with an outstanding ticket was removed by Release: its ticket
\* was cancelled once; another by disconnect, likewise
C15_Witness ==
    /\ \E m \in Msgs : TornPending(m, {"release"}) /\ cancels[m] = 1
    /\ \E m \in Msgs : TornPending(m, {"exit"}) /\ cancels[m] = 1
    /\ inflight = {}


\* the completion callbacks that can run now and end at their fail label
FailingCallbacks ==
    {run \in CompleteRuns : run.op \in FailKinds \cup {"sendfail"}}

\* the runs of the handlers that tear an owner down before they return:
\* full Release, disconnect, and Acquire with a resume that returns no ticket
InlineTeardowns ==
    {run \in ReleaseRuns :
         HasOwner(run.sender)
             /\ StrEq(TheOwner(run.sender).accesstype, run.arg)}
        \cup ExitRuns \cup SyncFailedRuns

\* the owner an inline teardown is about
Subject(run) ==
    IF run.op = "release" THEN TheOwner(run.sender).oid ELSE run.oid

C17_DestroyTearsDownAll ==
    \A run \in FreeRuns :
        transport.owners # <<>> =>
            /\ run.w.transport.owners = <<>>
            /\ ~run.w.transport.read_lock /\ ~run.w.transport.write_lock
            /\ ~run.w.transport.in_use
            /\ run.w.inflight = {} /\ run.w.watches = {}
            /\ \A m \in inflight :
                   /\ run.w.replies[m] = <<"EIO">>
                   /\ run.w.cancels[m] = 1
            /\ run.w.calls.cancel = Cardinality(inflight)
            /\ run.w.calls.suspend = 1
            /\ \A o \in Owners : run.w.hist[o.oid].by = "free"

\* a transport with two owners, both with outstanding tickets, was destroyed
C17_Witness ==
    /\ ~alive
    /\ \A m \in Msgs :
           /\ hist[m].by = "free" /\ hist[m].pending
           /\ replies[m] = <<"EIO">> /\ cancels[m] = 1
    /\ transport.owners = <<>> /\ ~transport.in_use


\* C18: a teardown task that runs after its owner was removed by Release,
\* disconnect or destruction does nothing: it changes no lock bit, removes no
\* owner, sends no reply and calls no profile hook.
C18_TornDownOnce ==
    \A run \in DanglingRuns :
        /\ run.w.transport = transport
        /\ run.w.replies = replies
        /\ run.w.inflight = inflight
        /\ run.w.calls.suspend = 0 /\ run.w.calls.cancel = 0


\* C19: no handler invokes suspend while in_use is FALSE.
C19_SuspendOnlyWhenLocked ==
    \A run \in Runs : run.w.calls.unlocked = 0

\* C20: whenever a handler has returned, an empty owner list implies that
\* in_use is FALSE.
C20_EmptyImpliesUnlocked ==
    transport.owners = <<>> => ~transport.in_use

\* the last owner, whose resume had taken the profile lock and delivered the
\* handle, has been removed
C20_Witness ==
    /\ transport.owners = <<>> /\ ~transport.in_use
    /\ \E m \in Msgs : hist[m].completion = "ok" /\ hist[m].by = "release"
    /\ \E m \in Msgs : hist[m].by = "syncfail"

====
